---- MODULE Spec2Model ----
(***************************************************************************)
(* Model of nagerapi: the NagerRawAPI transport, the Country / Holiday /   *)
(* Weekend domain objects and the NagerObjectAPI facade.                   *)
(*                                                                         *)
(* Encodings.  A Python str that the code upper-cases (a country code) is  *)
(* a sequence of one-character strings, so str.upper() is computed.  None  *)
(* is the string None for official/region; Country.borders is None or a   *)
(* non-empty list in the code, so None is the empty sequence here; an      *)
(* optional list (_countries) is <<>> for None and <<list>> for a list;    *)
(* default_country is 0 for None, else the position of the Country object  *)
(* in the cached list.  A Country object the caller operates on is         *)
(* addressed by a path: <<i>> is the i-th object of the cached list.  The  *)
(* one facade is the _nager of every object.                               *)
(***************************************************************************)
EXTENDS Integers, Sequences, FiniteSets, TLC

\* ---------------------------------------------------------------- bounds
MaxCountries == 2
MaxHolidays == 1

\* ---------------------------------------------------------------- strings
None == "None"

Lower == <<"a","b","c","d","e","f","g","h","i","j","k","l","m",
           "n","o","p","q","r","s","t","u","v","w","x","y","z">>
Capital == <<"A","B","C","D","E","F","G","H","I","J","K","L","M",
             "N","O","P","Q","R","S","T","U","V","W","X","Y","Z">>

UpperChar(ch) ==
    IF \E i \in DOMAIN Lower : Lower[i] = ch
    THEN Capital[CHOOSE i \in DOMAIN Lower : Lower[i] = ch]
    ELSE ch

UpperIdentity(s) == s

\* str.upper()
Upper(s) == [i \in DOMAIN s |-> UpperChar(s[i])]

LowerChar(ch) ==
    IF \E i \in DOMAIN Capital : Capital[i] = ch
    THEN Lower[CHOOSE i \in DOMAIN Capital : Capital[i] = ch]
    ELSE ch

\* every spelling of a code that differs from it in letter case only
CaseVariants(code) ==
    { [i \in DOMAIN code |-> IF i \in low THEN LowerChar(code[i]) ELSE code[i]]
        : low \in SUBSET DOMAIN code }

\* ---------------------------------------------------------------- remote service
\* codes the service lists, in the order of its AvailableCountries answer
AllCodes == << <<"U","S">>, <<"C","A">>, <<"G","B">>, <<"D","E">> >>
\* codes the service names as neighbours (not all of them are listed)
NeighbourCodes == << <<"M","X">>, <<"C","A">>, <<"F","R">> >>
InvalidCode == <<"Z","Z">>

CommonName(code) ==
    CASE code = <<"U","S">> -> "United States"
      [] code = <<"C","A">> -> "Canada"
      [] code = <<"G","B">> -> "United Kingdom"
      [] code = <<"D","E">> -> "Germany"
      [] code = <<"M","X">> -> "Mexico"
      [] code = <<"F","R">> -> "France"
      [] OTHER -> "Unknown"

OfficialName(code) ==
    CASE code = <<"U","S">> -> "United States of America"
      [] code = <<"G","B">> -> "United Kingdom of Great Britain and Northern Ireland"
      [] code = <<"D","E">> -> "Federal Republic of Germany"
      [] code = <<"M","X">> -> "United Mexican States"
      [] code = <<"F","R">> -> "French Republic"
      [] OTHER -> CommonName(code)

Region(code) ==
    IF code \in {<<"U","S">>, <<"C","A">>, <<"M","X">>} THEN "Americas" ELSE "Europe"

Min(a, b) == IF a < b THEN a ELSE b

SummaryBody(code) == [countryCode |-> code, name |-> CommonName(code)]

\* AvailableCountries answers: a list of {countryCode, name}, empty or with
\* the first MaxCountries codes
AvailableBodies ==
    { [i \in 1..k |-> SummaryBody(AllCodes[i])] : k \in {0, Min(MaxCountries, Len(AllCodes))} }

InfoBody(code, borders) ==
    [commonName |-> CommonName(code), officialName |-> OfficialName(code),
     countryCode |-> code, region |-> Region(code), borders |-> borders]

\* the borders element of a CountryInfo answer: null/empty, or neighbours,
\* one as a full CountryInfo record with borders null and one as a
\* {countryCode, name} record
BorderBodies ==
    { <<>>, << InfoBody(NeighbourCodes[1], <<>>), SummaryBody(NeighbourCodes[2]) >> }

\* CountryInfo/{code} answers
InfoBodies(code) == { InfoBody(code, b) : b \in BorderBodies }

VersionBodies == { [name |-> "Nager.Date", version |-> "1"] }

NoBody == <<>>

\* what session.get can produce: a RequestException, or a response with a
\* status code and a body that is valid JSON (one of bodies when 200) or not
Responses(bodies) ==
    { [conn |-> FALSE, status |-> 0, json |-> FALSE, body |-> NoBody] } \cup
    { [conn |-> TRUE, status |-> s, json |-> FALSE, body |-> NoBody]
        : s \in {200, 204, 404} } \cup
    { [conn |-> TRUE, status |-> s, json |-> TRUE, body |-> NoBody] : s \in {404, 500} } \cup
    { [conn |-> TRUE, status |-> 200, json |-> TRUE, body |-> b] : b \in bodies }

\* ---------------------------------------------------------------- transport
Returned(v) == [exc |-> "none", msg |-> "", val |-> v]
Raised(exc, msg) == [exc |-> exc, msg |-> msg, val |-> NoBody]

Request404AsOther(resp, status_bool) ==
    IF ~resp.conn THEN Raised("NagerException", "Failed to Connect")
    ELSE IF status_bool /\ resp.status = 200 THEN Returned(TRUE)
    ELSE IF status_bool /\ resp.status = 204 THEN Returned(FALSE)
    ELSE IF ~resp.json THEN Raised("NagerException", "Failed to Decode Response JSON")
    ELSE IF resp.status >= 400 THEN Raised("NagerException", "Request Error")
    ELSE Returned(resp.body)

\* NagerRawAPI._request, given what session.get produced
Request(resp, status_bool) ==
    IF ~resp.conn THEN Raised("NagerException", "Failed to Connect")
    ELSE IF status_bool /\ resp.status = 200 THEN Returned(TRUE)
    ELSE IF status_bool /\ resp.status = 204 THEN Returned(FALSE)
    ELSE IF ~resp.json THEN Raised("NagerException", "Failed to Decode Response JSON")
    ELSE IF resp.status = 404 THEN Raised("NagerException", "Country Code Invalid")
    ELSE IF resp.status >= 400 THEN Raised("NagerException", "Request Error")
    ELSE Returned(resp.body)

\* ---------------------------------------------------------------- NagerBase
StartsWithUnderscore(key) == key \in {"_nager", "_loading", "_full", "_countries"}

SetAttrAlways(w, key, value) ==
    IF w.raised THEN w ELSE [w EXCEPT !.obj[key] = value]

\* NagerBase.__setattr__ / NagerObjectAPI.__setattr__ on w.obj; w.raised
\* carries an AttributeError through the statements that follow it
SetAttr(w, key, value) ==
    IF w.raised THEN w
    ELSE IF StartsWithUnderscore(key) \/ w.obj._loading
         THEN [w EXCEPT !.obj[key] = value]
         ELSE [w EXCEPT !.raised = TRUE]

Obj(o) == [obj |-> o, raised |-> FALSE]

\* ---------------------------------------------------------------- Country
\* the object after NagerBase.__init__, before any attribute is assigned
BlankCountry ==
    [name |-> None, code |-> <<>>, official |-> None, region |-> None,
     borders |-> <<>>, _full |-> FALSE, _loading |-> TRUE]

RECURSIVE Load(_, _)
RECURSIVE NewCountry(_)

LoadFullByBorders(obj, data) ==
    LET s0 == SetAttr(Obj(obj), "_loading", TRUE)
        s1 == SetAttr(s0, "name", IF "name" \in DOMAIN data THEN data.name ELSE data.commonName)
        s2 == SetAttr(s1, "code", data.countryCode)
        s3 == SetAttr(s2, "official",
                      IF "officialName" \in DOMAIN data THEN data.officialName ELSE None)
        s4 == SetAttr(s3, "region", IF "region" \in DOMAIN data THEN data.region ELSE None)
        s5 == SetAttr(s4, "borders",
                      IF "borders" \in DOMAIN data /\ data.borders # <<>>
                      THEN [i \in DOMAIN data.borders |-> NewCountry(data.borders[i])]
                      ELSE <<>>)
        s6 == SetAttr(s5, "_full", "borders" \in DOMAIN data /\ data.borders # <<>>)
    IN  SetAttr(s6, "_loading", FALSE)

\* Country._load: the object and whether an assignment raised
Load(obj, data) ==
    LET s0 == SetAttr(Obj(obj), "_loading", TRUE)
        s1 == SetAttr(s0, "name", IF "name" \in DOMAIN data THEN data.name ELSE data.commonName)
        s2 == SetAttr(s1, "code", data.countryCode)
        s3 == SetAttr(s2, "official",
                      IF "officialName" \in DOMAIN data THEN data.officialName ELSE None)
        s4 == SetAttr(s3, "region", IF "region" \in DOMAIN data THEN data.region ELSE None)
        s5 == SetAttr(s4, "borders",
                      IF "borders" \in DOMAIN data /\ data.borders # <<>>
                      THEN [i \in DOMAIN data.borders |-> NewCountry(data.borders[i])]
                      ELSE <<>>)
        s6 == SetAttr(s5, "_full", "region" \in DOMAIN data)
    IN  SetAttr(s6, "_loading", FALSE)

\* Country.__init__
NewCountry(data) == Load(BlankCountry, data).obj

\* Country.__eq__ against a str
CountryEqStr(c, s) == c.code = Upper(s)

\* str in list / list.index(str), with Country.__eq__ as the comparison;
\* positions count from 1, and 0 stands for the ValueError of list.index
Contains(list, s) == \E i \in DOMAIN list : CountryEqStr(list[i], s)
Index(list, s) ==
    IF Contains(list, s)
    THEN CHOOSE i \in DOMAIN list :
            CountryEqStr(list[i], s) /\ \A j \in 1..(i - 1) : ~CountryEqStr(list[j], s)
    ELSE 0

\* ---------------------------------------------------------------- calls in progress
\* The context of a call in progress: the facade (with every object reachable
\* from it), the remote calls issued so far, the exception raised if any, and
\* the value returned.  An operation is a set of contexts, one per outcome
\* of the remote calls it makes.
NoResp == [conn |-> FALSE, status |-> 0, json |-> FALSE]
Ctx(n) ==
    [n |-> n, calls |-> <<>>, resp |-> NoResp, exc |-> "none", msg |-> "", ret |-> NoBody]

Return(ctx, v) == [ctx EXCEPT !.ret = v]
Raise(ctx, exc, msg) == [ctx EXCEPT !.exc = exc, !.msg = msg]
Called(ctx, ep, arg, resp, r) ==
    [ctx EXCEPT !.calls = Append(@, [ep |-> ep, arg |-> arg, ok |-> r.exc = "none"]),
                !.resp = [conn |-> resp.conn, status |-> resp.status, json |-> resp.json]]

\* statement sequencing: F runs on the outcomes that did not raise
Then(S, F(_)) == UNION { IF o.exc # "none" THEN {o} ELSE F(o) : o \in S }

GetCountry(n, path) == n._countries[1][path[1]]

PutCountry(n, path, c) == [n EXCEPT !._countries[1][path[1]] = c]

\* ---------------------------------------------------------------- raw API
\* a raw endpoint method called with args: Python raises TypeError when the
\* number of positional arguments is not the number of parameters
RawCall(ctx, ep, params, args, status_bool, bodies) ==
    IF Len(args) # params
    THEN { Raise(ctx, "TypeError", "missing required positional argument") }
    ELSE { LET r == Request(resp, status_bool)
           IN  IF r.exc = "none" THEN Return(Called(ctx, ep, args, resp, r), r.val)
               ELSE Raise(Called(ctx, ep, args, resp, r), r.exc, r.msg)
           : resp \in Responses(bodies) }

get_country_info(ctx, args) ==
    RawCall(ctx, "CountryInfo", 1, args, FALSE,
            IF Len(args) = 1 THEN InfoBodies(args[1]) ELSE {})
get_available_countries(ctx, args) ==
    RawCall(ctx, "AvailableCountries", 0, args, FALSE, AvailableBodies)
get_is_today_public_holiday(ctx, args) ==
    RawCall(ctx, "IsTodayPublicHoliday", 1, args, TRUE, {})
get_version(ctx, args) == RawCall(ctx, "Version", 0, args, FALSE, VersionBodies)

\* ---------------------------------------------------------------- Country methods
LoadDetailsMarksFullFirst(ctx, path) ==
    LET c == GetCountry(ctx.n, path)
        ctx1 == [ctx EXCEPT !.n = PutCountry(ctx.n, path, [c EXCEPT !._full = TRUE])]
    IN  Then(get_country_info(ctx1, <<c.code>>),
             LAMBDA o :
                LET w == Load(GetCountry(o.n, path), o.ret)
                    o1 == [o EXCEPT !.n = PutCountry(o.n, path, w.obj), !.ret = NoBody]
                IN  { IF w.raised THEN Raise(o1, "AttributeError", "Attributes cannot be edited")
                      ELSE o1 })

\* Country.load_details
load_details(ctx, path) ==
    Then(get_country_info(ctx, <<GetCountry(ctx.n, path).code>>),
         LAMBDA o :
            LET w == Load(GetCountry(o.n, path), o.ret)
                o1 == [o EXCEPT !.n = PutCountry(o.n, path, w.obj), !.ret = NoBody]
            IN  { IF w.raised THEN Raise(o1, "AttributeError", "Attributes cannot be edited")
                  ELSE o1 })

\* value is None, for the attribute item
IsNone(item, value) ==
    IF item = "borders" THEN value = <<>>
    ELSE IF item \in {"official", "region"} THEN value = None
    ELSE FALSE

GetAttributeNoFullCheck(ctx, path, item) ==
    LET c == GetCountry(ctx.n, path)
    IN  IF ~IsNone(item, c[item])
        THEN { Return(ctx, c[item]) }
        ELSE Then(load_details(ctx, path),
                  LAMBDA o : { Return(o, GetCountry(o.n, path)[item]) })

\* Country.__getattribute__
GetAttribute(ctx, path, item) ==
    LET c == GetCountry(ctx.n, path)
    IN  IF ~IsNone(item, c[item]) \/ c._full
        THEN { Return(ctx, c[item]) }
        ELSE Then(load_details(ctx, path),
                  LAMBDA o : { Return(o, GetCountry(o.n, path)[item]) })

\* ---------------------------------------------------------------- NagerObjectAPI
AvailableCountriesRefetchEmpty(ctx) ==
    IF ctx.n._countries # <<>> /\ ctx.n._countries[1] # <<>>
    THEN { Return(ctx, ctx.n._countries[1]) }
    ELSE Then(get_available_countries(ctx, <<>>),
              LAMBDA o :
                 LET list == [i \in DOMAIN o.ret |-> NewCountry(o.ret[i])]
                     w == SetAttr(Obj(o.n), "_countries", <<list>>)
                 IN  { Return([o EXCEPT !.n = w.obj], list) })

AvailableCountriesNoMemo(ctx) ==
    Then(get_available_countries(ctx, <<>>),
         LAMBDA o :
            LET list == [i \in DOMAIN o.ret |-> NewCountry(o.ret[i])]
                w == SetAttr(Obj(o.n), "_countries", <<list>>)
            IN  { Return([o EXCEPT !.n = w.obj], list) })

\* NagerObjectAPI.available_countries
available_countries(ctx) ==
    IF ctx.n._countries # <<>>
    THEN { Return(ctx, ctx.n._countries[1]) }
    ELSE Then(get_available_countries(ctx, <<>>),
              LAMBDA o :
                 LET list == [i \in DOMAIN o.ret |-> NewCountry(o.ret[i])]
                     w == SetAttr(Obj(o.n), "_countries", <<list>>)
                 IN  { Return([o EXCEPT !.n = w.obj], list) })

\* the country argument of a facade method: absent, a str, or a Country object
NoArg == [kind |-> "none", s |-> <<>>, path |-> <<>>]
StrArg(s) == [kind |-> "str", s |-> s, path |-> <<>>]
ObjArg(path) == [kind |-> "obj", s |-> <<>>, path |-> path]

\* not country
Falsy(arg) == arg.kind = "none" \/ (arg.kind = "str" /\ arg.s = <<>>)

ResolveDefaultAlwaysRaises(ctx, arg) ==
    IF Falsy(arg)
    THEN { Raise(ctx, "NagerException", "No Country Provided") }
    ELSE { Return(ctx, arg) }

\* the head of NagerObjectAPI.country: the default stands in for no argument
ResolveDefault(ctx, arg) ==
    IF Falsy(arg)
    THEN IF ctx.n.default_country = 0
         THEN { Raise(ctx, "NagerException", "No Country Provided") }
         ELSE { Return(ctx, ObjArg(<<ctx.n.default_country>>)) }
    ELSE { Return(ctx, arg) }

CountryLoadAlways(ctx, path, load) ==
    IF ~GetCountry(ctx.n, path)._full
    THEN Then(load_details(ctx, path), LAMBDA o : { Return(o, path) })
    ELSE { Return(ctx, path) }

\* the tail of NagerObjectAPI.country, once country is a Country object
CountryLoad(ctx, path, load) ==
    IF ~GetCountry(ctx.n, path)._full /\ load
    THEN Then(load_details(ctx, path), LAMBDA o : { Return(o, path) })
    ELSE { Return(ctx, path) }

\* NagerObjectAPI.country
country(ctx, arg, load) ==
    Then(ResolveDefault(ctx, arg),
      LAMBDA o0 :
        IF o0.ret.kind = "obj" THEN CountryLoad(o0, o0.ret.path, load)
        ELSE LET code == Upper(o0.ret.s)
             IN  Then(available_countries(o0),
                   LAMBDA o1 :
                     IF ~Contains(o1.ret, code)
                     THEN Then(available_countries(o1),
                            LAMBDA o2 : { Raise(o2, "NagerException", "Invalid Country Code") })
                     ELSE Then(available_countries(o1),
                            LAMBDA o2 : Then(available_countries(o2),
                              LAMBDA o3 :
                                IF Index(o3.ret, code) = 0
                                THEN { Raise(o3, "ValueError", "is not in list") }
                                ELSE CountryLoad(o3, <<Index(o3.ret, code)>>, load)))))

\* ---------------------------------------------------------------- Weekend, Holiday
\* a "YYYY-MM-DD" text is the triple <<Y, M, D>>; an absent text is <<>>
Strptime(text) ==
    IF text # <<>> THEN <<[year |-> text[1], month |-> text[2], day |-> text[3]]>> ELSE <<>>

WeekendBody ==
    [startDate |-> <<2026, 7, 3>>, endDate |-> <<2026, 7, 5>>, dayCount |-> 3,
     needBridgeDay |-> FALSE]

HolidayBody(code) ==
    [name |-> "New Year's Day", localName |-> "New Year's Day", date |-> <<2026, 1, 1>>,
     countryCode |-> code, fixed |-> FALSE, global |-> TRUE, counties |-> <<>>,
     launchYear |-> 0, types |-> <<"Public">>]

\* LongWeekend/{year}/{code} answers
WeekendLists == { [i \in 1..k |-> WeekendBody] : k \in 0..MaxHolidays }
\* PublicHolidays/{year}/{code} and NextPublicHolidays/{code} answers
HolidayLists(code) == { [i \in 1..k |-> HolidayBody(code)] : k \in 0..MaxHolidays }
\* NextPublicHolidaysWorldwide answers
WorldCodes == { AllCodes[i] : i \in 1..Min(MaxCountries, Len(AllCodes)) }
WorldwideLists ==
    UNION { [1..k -> { HolidayBody(c) : c \in WorldCodes }] : k \in 0..MaxHolidays }

BlankWeekend ==
    [start_date |-> <<>>, end_date |-> <<>>, day_count |-> 0, need_bridge_day |-> FALSE,
     _loading |-> TRUE]

\* Weekend.__init__
NewWeekend(data) ==
    LET s1 == SetAttr(Obj(BlankWeekend), "start_date", Strptime(data.startDate))
        s2 == SetAttr(s1, "end_date", Strptime(data.endDate))
        s3 == SetAttr(s2, "day_count", data.dayCount)
        s4 == SetAttr(s3, "need_bridge_day", data.needBridgeDay)
    IN  SetAttr(s4, "_loading", FALSE).obj

In(x, list) == \E i \in DOMAIN list : list[i] = x

BlankHoliday ==
    [name |-> None, local_name |-> None, date |-> <<>>, code |-> <<>>, country |-> <<>>,
     fixed_holiday |-> FALSE, global_holiday |-> FALSE, counties |-> <<>>,
     launch_year |-> 0, types |-> <<>>, is_public |-> FALSE, is_bank |-> FALSE,
     is_school |-> FALSE, is_authorities |-> FALSE, is_optional |-> FALSE,
     is_observance |-> FALSE, _loading |-> TRUE]

HolidayLoadsCountry(ctx, data) ==
    Then(country(ctx, StrArg(data.countryCode), TRUE),
         LAMBDA o :
            LET s1 == SetAttr(Obj(BlankHoliday), "name", data.name)
                s2 == SetAttr(s1, "local_name", data.localName)
                s3 == SetAttr(s2, "date", Strptime(data.date))
                s4 == SetAttr(s3, "code", data.countryCode)
                s5 == SetAttr(s4, "country", o.ret)
                s6 == SetAttr(s5, "fixed_holiday", data.fixed)
                s7 == SetAttr(s6, "global_holiday", data.global)
                s8 == SetAttr(s7, "counties", data.counties)
                s9 == SetAttr(s8, "launch_year", data.launchYear)
                s10 == SetAttr(s9, "types", data.types)
                s11 == SetAttr(s10, "is_public", In("Public", data.types))
                s12 == SetAttr(s11, "is_bank", In("Bank", data.types))
                s13 == SetAttr(s12, "is_school", In("School", data.types))
                s14 == SetAttr(s13, "is_authorities", In("Authorities", data.types))
                s15 == SetAttr(s14, "is_optional", In("Optional", data.types))
                s16 == SetAttr(s15, "is_observance", In("Observance", data.types))
            IN  { Return(o, SetAttr(s16, "_loading", FALSE).obj) })

\* Holiday.__init__: country is the path of the Country that
\* self._nager.country(self.code, load=False) returned
Holiday(ctx, data) ==
    Then(country(ctx, StrArg(data.countryCode), FALSE),
         LAMBDA o :
            LET s1 == SetAttr(Obj(BlankHoliday), "name", data.name)
                s2 == SetAttr(s1, "local_name", data.localName)
                s3 == SetAttr(s2, "date", Strptime(data.date))
                s4 == SetAttr(s3, "code", data.countryCode)
                s5 == SetAttr(s4, "country", o.ret)
                s6 == SetAttr(s5, "fixed_holiday", data.fixed)
                s7 == SetAttr(s6, "global_holiday", data.global)
                s8 == SetAttr(s7, "counties", data.counties)
                s9 == SetAttr(s8, "launch_year", data.launchYear)
                s10 == SetAttr(s9, "types", data.types)
                s11 == SetAttr(s10, "is_public", In("Public", data.types))
                s12 == SetAttr(s11, "is_bank", In("Bank", data.types))
                s13 == SetAttr(s12, "is_school", In("School", data.types))
                s14 == SetAttr(s13, "is_authorities", In("Authorities", data.types))
                s15 == SetAttr(s14, "is_optional", In("Optional", data.types))
                s16 == SetAttr(s15, "is_observance", In("Observance", data.types))
            IN  { Return(o, SetAttr(s16, "_loading", FALSE).obj) })

RECURSIVE Holidays(_, _)
\* [Holiday(nager, h) for h in datas]
Holidays(ctx, datas) ==
    IF datas = <<>> THEN { Return(ctx, <<>>) }
    ELSE Then(Holidays(ctx, SubSeq(datas, 1, Len(datas) - 1)),
              LAMBDA o : Then(Holiday(o, datas[Len(datas)]),
                              LAMBDA o2 : { Return(o2, Append(o.ret, o2.ret)) }))

Years == {2026}

\* Country.long_weekends
Country_long_weekends(ctx, path, year) ==
    Then(RawCall(ctx, "LongWeekend", 2, <<year, GetCountry(ctx.n, path).code>>, FALSE,
                 WeekendLists),
         LAMBDA o : { Return(o, [i \in DOMAIN o.ret |-> NewWeekend(o.ret[i])]) })

\* Country.public_holidays
Country_public_holidays(ctx, path, year) ==
    Then(RawCall(ctx, "PublicHolidays", 2, <<year, GetCountry(ctx.n, path).code>>, FALSE,
                 HolidayLists(GetCountry(ctx.n, path).code)),
         LAMBDA o : Holidays(o, o.ret))

\* Country.is_today_public_holiday
Country_is_today_public_holiday(ctx, path) == get_is_today_public_holiday(ctx, <<>>)

\* Country.next_public_holidays
Country_next_public_holidays(ctx, path) ==
    Then(RawCall(ctx, "NextPublicHolidays", 1, <<GetCountry(ctx.n, path).code>>, FALSE,
                 HolidayLists(GetCountry(ctx.n, path).code)),
         LAMBDA o : Holidays(o, o.ret))

\* NagerObjectAPI.long_weekends
long_weekends(ctx, year, arg) ==
    Then(country(ctx, arg, FALSE), LAMBDA o : Country_long_weekends(o, o.ret, year))

\* NagerObjectAPI.public_holidays
public_holidays(ctx, year, arg) ==
    Then(country(ctx, arg, FALSE), LAMBDA o : Country_public_holidays(o, o.ret, year))

\* NagerObjectAPI.is_today_public_holiday; offset is <<>> when the caller
\* passes no offset keyword, which the signature does not have
is_today_public_holiday(ctx, arg, offset) ==
    IF offset # <<>>
    THEN { Raise(ctx, "TypeError", "unexpected keyword argument") }
    ELSE Then(country(ctx, arg, FALSE), LAMBDA o : Country_is_today_public_holiday(o, o.ret))

\* NagerObjectAPI.next_public_holidays
next_public_holidays(ctx, arg) ==
    Then(country(ctx, arg, FALSE), LAMBDA o : Country_next_public_holidays(o, o.ret))

\* NagerObjectAPI.next_public_worldwide_holidays
next_public_worldwide_holidays(ctx) ==
    Then(RawCall(ctx, "NextPublicHolidaysWorldwide", 0, <<>>, FALSE, WorldwideLists),
         LAMBDA o : Holidays(o, o.ret))

BlankNager ==
    [name |-> None, version |-> None, _countries |-> <<>>, default_country |-> 0,
     _loading |-> TRUE]

\* NagerObjectAPI.__init__; default_country is <<>> when none is given
NagerInit(default_country) ==
    Then(get_version(Ctx(BlankNager), <<>>),
         LAMBDA o :
            LET s1 == SetAttr(Obj(o.n), "name", o.ret.name)
                s2 == SetAttr(s1, "version", o.ret.version)
                s3 == SetAttr(s2, "_countries", <<>>)
                o1 == [o EXCEPT !.n = s3.obj]
            IN  Then(IF default_country # <<>>
                     THEN country(o1, StrArg(default_country), TRUE)
                     ELSE { Return(o1, <<0>>) },
                     LAMBDA o2 :
                        LET s4 == SetAttr(Obj(o2.n), "default_country", o2.ret[1])
                        IN  { [o2 EXCEPT !.n = SetAttr(s4, "_loading", FALSE).obj,
                                         !.ret = NoBody] }))

\* ---------------------------------------------------------------- state
VARIABLES
    nager,      \* the NagerObjectAPI object and the Country objects it caches
    last,       \* the last operation: its arguments, remote calls and result
    acOk        \* successful AvailableCountries calls since construction

vars == <<nager, last, acOk>>

\* arguments the caller passes
DefaultArgs == { <<>>, <<"u","s">> }
ListedCodes == { AllCodes[i] : i \in 1..Min(MaxCountries, Len(AllCodes)) }
StrArgs == { <<>>, InvalidCode } \cup UNION { CaseVariants(c) : c \in ListedCodes }
RawArgs == { InvalidCode }
Paths(n) == IF n._countries = <<>> THEN {} ELSE { <<i>> : i \in DOMAIN n._countries[1] }
Args(n) == { NoArg } \cup { StrArg(s) : s \in StrArgs } \cup { ObjArg(p) : p \in Paths(n) }
FewArgs(n) ==
    { NoArg, StrArg(InvalidCode), StrArg(<<"u","s">>) } \cup
    { ObjArg(p) : p \in { q \in Paths(n) : q[1] = Len(n._countries[1]) } }
Items == { "name", "code", "official", "region", "borders" }
Offsets == { <<>>, <<-5>> }

\* the value an outside assignment tries to store
AssignedValue(key) ==
    CASE key \in {"name", "official", "region", "version", "local_name"} -> "Bob"
      [] key = "code" -> <<"B","O">>
      [] key = "borders" -> <<NewCountry(SummaryBody(<<"B","O">>))>>
      [] key = "day_count" -> 99
      [] key = "default_country" -> 0
      [] key = "need_bridge_day" -> TRUE
      [] key = "is_public" -> FALSE

OkCalls(calls, ep) == Cardinality({ i \in DOMAIN calls : calls[i].ep = ep /\ calls[i].ok })

Op(op) ==
    [op |-> op, arg |-> NoArg, load |-> FALSE, path |-> <<>>, key |-> "", offset |-> <<>>,
     calls |-> <<>>, resp |-> NoResp, exc |-> "none", msg |-> "", ret |-> NoBody,
     preCached |-> FALSE, preFull |-> FALSE]

\* the Country a country argument names before the call, if it is known
PrePath(n, arg) ==
    IF Falsy(arg) THEN (IF n.default_country = 0 THEN <<>> ELSE <<n.default_country>>)
    ELSE IF arg.kind = "obj" THEN arg.path
    ELSE IF n._countries # <<>> /\ Contains(n._countries[1], arg.s)
         THEN <<Index(n._countries[1], arg.s)>>
         ELSE <<>>
PreFull(n, path) == path # <<>> /\ GetCountry(n, path)._full

Done(o, rec, path) ==
    [rec EXCEPT !.calls = o.calls, !.exc = o.exc, !.msg = o.msg,
                !.ret = IF o.exc = "none" THEN o.ret ELSE NoBody,
                !.preCached = nager._countries # <<>>,
                !.preFull = PreFull(nager, path)]

Finish(o, rec, path) ==
    /\ nager' = o.n
    /\ acOk' = acOk + OkCalls(o.calls, "AvailableCountries")
    /\ last' = Done(o, rec, path)

Init ==
    \E d \in DefaultArgs : \E o \in NagerInit(d) :
        /\ o.exc = "none"
        /\ nager = o.n
        /\ acOk = OkCalls(o.calls, "AvailableCountries")
        /\ last = [Op("__init__") EXCEPT !.arg = StrArg(d), !.load = TRUE, !.calls = o.calls]

\* ---------------------------------------------------------------- actions
\* nager.country(arg, load)
Resolve ==
    \E arg \in Args(nager), load \in BOOLEAN :
        \E o \in country(Ctx(nager), arg, load) :
            Finish(o, [Op("country") EXCEPT !.arg = arg, !.load = load, !.resp = o.resp],
                   PrePath(nager, arg))

\* s in nager.available_countries
AvailableCountries ==
    \E s \in { InvalidCode, <<"g","b">>, <<"U","S">> } :
        \E o \in available_countries(Ctx(nager)) :
            Finish(IF o.exc = "none" THEN Return(o, Contains(o.ret, s)) ELSE o,
                   [Op("available_countries") EXCEPT !.arg = StrArg(s)], <<>>)

\* reading an attribute of a Country object
ReadAttribute ==
    \E p \in Paths(nager), item \in Items :
        \E o \in GetAttribute(Ctx(nager), p, item) :
            Finish(o, [Op("getattribute") EXCEPT !.key = item, !.path = p, !.resp = o.resp], p)

\* country.load_details()
LoadDetails ==
    \E p \in Paths(nager) :
        \E o \in load_details(Ctx(nager), p) :
            Finish(o, [Op("load_details") EXCEPT !.path = p, !.resp = o.resp], p)

Assigned(rec, w) ==
    [rec EXCEPT !.exc = IF w.raised THEN "AttributeError" ELSE "none",
                !.msg = IF w.raised THEN "Attributes cannot be edited" ELSE "",
                !.preCached = nager._countries # <<>>]

\* country.key = value, from outside the class
AssignCountry ==
    \E p \in Paths(nager), key \in {"name", "code", "official", "region", "borders"} :
        LET w == SetAttr(Obj(GetCountry(nager, p)), key, AssignedValue(key))
        IN  /\ nager' = PutCountry(nager, p, w.obj)
            /\ last' = [Assigned([Op("assign_country") EXCEPT !.key = key], w)
                            EXCEPT !.path = p, !.preFull = PreFull(nager, p)]
            /\ UNCHANGED acOk

\* the methods that return a list of Holiday objects
HolidayOps == { "public_holidays", "next_public_holidays", "next_public_worldwide_holidays" }

\* holiday.key = value, from outside the class, on the i-th Holiday of the
\* list the last call returned; last.ret becomes that Holiday
AssignHoliday ==
    /\ last.op \in HolidayOps /\ last.exc = "none"
    /\ \E i \in DOMAIN last.ret, key \in {"name", "is_public"} :
        LET w == SetAttr(Obj(last.ret[i]), key, AssignedValue(key))
        IN  /\ last' = [Assigned([Op("assign_holiday") EXCEPT !.key = key], w)
                            EXCEPT !.path = <<i>>, !.ret = w.obj]
            /\ UNCHANGED <<nager, acOk>>

\* weekend.key = value, from outside the class, on the i-th Weekend of the
\* list the last call returned; last.ret becomes that Weekend
AssignWeekend ==
    /\ last.op = "long_weekends" /\ last.exc = "none"
    /\ \E i \in DOMAIN last.ret, key \in {"day_count", "need_bridge_day"} :
        LET w == SetAttr(Obj(last.ret[i]), key, AssignedValue(key))
        IN  /\ last' = [Assigned([Op("assign_weekend") EXCEPT !.key = key], w)
                            EXCEPT !.path = <<i>>, !.ret = w.obj]
            /\ UNCHANGED <<nager, acOk>>

\* nager.key = value, from outside the class
AssignNager ==
    \E key \in {"name", "version", "default_country"} :
        LET w == SetAttr(Obj(nager), key, AssignedValue(key))
        IN  /\ nager' = w.obj
            /\ last' = Assigned([Op("assign_nager") EXCEPT !.key = key], w)
            /\ UNCHANGED acOk

\* nager.long_weekends(year, arg)
LongWeekends ==
    \E arg \in FewArgs(nager), year \in Years :
        \E o \in long_weekends(Ctx(nager), year, arg) :
            Finish(o, Op("long_weekends"), PrePath(nager, arg))

\* nager.public_holidays(year, arg)
PublicHolidays ==
    \E arg \in FewArgs(nager), year \in Years :
        \E o \in public_holidays(Ctx(nager), year, arg) :
            Finish(o, Op("public_holidays"), PrePath(nager, arg))

\* nager.is_today_public_holiday(arg), with or without offset=
IsTodayPublicHoliday ==
    \E arg \in FewArgs(nager), offset \in Offsets :
        \E o \in is_today_public_holiday(Ctx(nager), arg, offset) :
            Finish(o, [Op("is_today_public_holiday") EXCEPT !.arg = arg, !.offset = offset,
                                                            !.resp = o.resp],
                   PrePath(nager, arg))

\* nager.next_public_holidays(arg)
NextPublicHolidays ==
    \E arg \in FewArgs(nager) :
        \E o \in next_public_holidays(Ctx(nager), arg) :
            Finish(o, Op("next_public_holidays"), PrePath(nager, arg))

\* nager.next_public_worldwide_holidays()
NextPublicWorldwideHolidays ==
    \E o \in next_public_worldwide_holidays(Ctx(nager)) :
        Finish(o, Op("next_public_worldwide_holidays"), <<>>)

\* nager.api.get_country_info(code)
RawCountryInfo ==
    \E s \in RawArgs :
        \E o \in get_country_info(Ctx(nager), <<s>>) :
            Finish([o EXCEPT !.ret = NoBody],
                   [Op("get_country_info") EXCEPT !.arg = StrArg(s), !.resp = o.resp], <<>>)

\* nager.api.get_is_today_public_holiday(code)
RawIsTodayPublicHoliday ==
    \E s \in { AllCodes[1] } :
        \E o \in get_is_today_public_holiday(Ctx(nager), <<s>>) :
            Finish(o, [Op("get_is_today_public_holiday") EXCEPT !.arg = StrArg(s),
                                                                 !.resp = o.resp], <<>>)

Next ==
    \/ Resolve
    \/ AvailableCountries
    \/ ReadAttribute
    \/ LoadDetails
    \/ AssignCountry
    \/ AssignHoliday
    \/ AssignWeekend
    \/ AssignNager
    \/ LongWeekends
    \/ PublicHolidays
    \/ IsTodayPublicHoliday
    \/ NextPublicHolidays
    \/ NextPublicWorldwideHolidays
    \/ RawCountryInfo
    \/ RawIsTodayPublicHoliday

Spec == Init /\ [][Next]_vars

\* ---------------------------------------------------------------- properties
Cached == nager._countries # <<>>
CountryList == nager._countries[1]
IssuedTo(ep) == \E i \in DOMAIN last.calls : last.calls[i].ep = ep
Raises(exc, msg) == last.exc = exc /\ last.msg = msg

\* summary state and full state of a Country object
IsSummary(c) == ~c._full /\ c.official = None /\ c.region = None /\ c.borders = <<>>
IsFull(c) == c._full /\ c.official # None /\ c.region # None

\* country(code, load=False) with a code string has returned
ResolvedCodeNoLoad ==
    /\ last.op = "country" /\ last.arg.kind = "str" /\ ~Falsy(last.arg)
    /\ ~last.load /\ last.exc = "none"

\* the region of a Country that was not full has been read
ReadRegionOfSummary ==
    last.op = "getattribute" /\ last.key = "region" /\ ~last.preFull

\* C1, as stated: in every reachable state, country(code, load=False) for
\* a listed code returns a Country in summary state without a CountryInfo
\* call, and reading its region afterwards issues the CountryInfo call and
\* leaves the Country in full state.
C1_AsStated ==
    /\ ResolvedCodeNoLoad =>
          /\ IsSummary(GetCountry(nager, last.ret))
          /\ ~IssuedTo("CountryInfo")
    /\ ReadRegionOfSummary =>
          /\ IssuedTo("CountryInfo")
          /\ IsFull(GetCountry(nager, last.path))

\* C1, amended: country(code, load=False) for a listed code issues no
\* CountryInfo call and returns the cached Country as it is: full exactly
\* when an earlier load made it full, in summary state otherwise; reading
\* region of a Country that is not full issues one CountryInfo call for its
\* code and leaves it full when that call succeeds, unchanged in summary
\* state when it fails.
C1_ResolveWithoutLoad ==
    /\ ResolvedCodeNoLoad =>
          /\ ~IssuedTo("CountryInfo")
          /\ GetCountry(nager, last.ret)._full = last.preFull
          /\ last.preFull => IsFull(GetCountry(nager, last.ret))
          /\ ~last.preFull => IsSummary(GetCountry(nager, last.ret))
    /\ ReadRegionOfSummary =>
          /\ Len(last.calls) = 1
          /\ last.calls[1].ep = "CountryInfo"
          /\ last.calls[1].arg = <<GetCountry(nager, last.path).code>>
          /\ last.calls[1].ok => last.exc = "none" /\ IsFull(GetCountry(nager, last.path))
                                  /\ last.ret = GetCountry(nager, last.path).region
          /\ ~last.calls[1].ok => last.exc = "NagerException"
                                  /\ IsSummary(GetCountry(nager, last.path))

C1_Witness ==
    /\ ResolvedCodeNoLoad
    /\ last.preCached
    /\ IsSummary(GetCountry(nager, last.ret))
    /\ last.calls = <<>>

\* the code string of the last country() call names no listed Country
NotListed == ~Cached \/ ~\E i \in DOMAIN CountryList : last.arg.s \in CaseVariants(CountryList[i].code)
ResolvedUnlisted ==
    last.op = "country" /\ last.arg.kind = "str" /\ ~Falsy(last.arg) /\ NotListed

\* C2, as stated: in every reachable state, country(code) for a code that
\* is not listed raises the invalid-country-code error and issues no remote
\* call.
C2_AsStated ==
    ResolvedUnlisted => Raises("NagerException", "Invalid Country Code") /\ last.calls = <<>>

\* C2, amended: country(code) for a code that is not listed always raises
\* and never issues a CountryInfo call; when the list is already cached it
\* raises the invalid-country-code error without any remote call; when it
\* is not, the call issues the one AvailableCountries call and raises the
\* invalid-country-code error if that call succeeds, that call's error if
\* it fails.
C2_InvalidCode ==
    ResolvedUnlisted =>
        /\ last.exc = "NagerException"
        /\ ~IssuedTo("CountryInfo")
        /\ last.preCached => last.calls = <<>> /\ last.msg = "Invalid Country Code"
        /\ ~last.preCached =>
              /\ Len(last.calls) = 1
              /\ last.calls[1].ep = "AvailableCountries"
              /\ last.calls[1].ok <=> last.msg = "Invalid Country Code"
              /\ ~last.calls[1].ok =>
                    last.msg \in {"Failed to Connect", "Failed to Decode Response JSON",
                                  "Country Code Invalid", "Request Error"}

C2_Witness ==
    /\ ResolvedUnlisted
    /\ last.arg.s = InvalidCode
    /\ last.preCached
    /\ Raises("NagerException", "Invalid Country Code")
    /\ last.calls = <<>>

\* the last call fetched the list and built its Country objects, no more
ListJustBuilt ==
    /\ last.op = "available_countries" /\ ~last.preCached /\ last.exc = "none"

\* C3: a Country built from a summary payload is in summary state; a
\* Country that a load has made full has official name and region present,
\* and reading any of name, code, official, region, borders, _full of it,
\* borders being None included, issues no remote call and returns the
\* stored value.
C3_SummaryThenFull ==
    /\ ListJustBuilt => \A i \in DOMAIN CountryList : IsSummary(CountryList[i])
    /\ Cached => \A i \in DOMAIN CountryList :
          /\ CountryList[i]._full => IsFull(CountryList[i])
          /\ \A j \in DOMAIN CountryList[i].borders :
                LET b == CountryList[i].borders[j]
                IN  IF b._full THEN IsFull(b) ELSE IsSummary(b)
    /\ (last.op = "getattribute" /\ last.preFull) =>
          /\ last.calls = <<>>
          /\ last.exc = "none"
          /\ last.ret = GetCountry(nager, last.path)[last.key]

C3_Witness ==
    /\ last.op = "getattribute" /\ last.preFull
    /\ last.key = "borders"
    /\ GetCountry(nager, last.path).borders = <<>>
    /\ last.calls = <<>>

\* C4: the list of available countries is fetched at most once with
\* success for the facade: the facade holds the list exactly when one
\* AvailableCountries call has succeeded, and an operation that starts with
\* the list cached issues no AvailableCountries call.
C4_FetchedOnce ==
    /\ acOk <= 1
    /\ Cached <=> acOk = 1
    /\ last.preCached => Cached /\ ~IssuedTo("AvailableCountries")
    /\ ~Cached => \A i \in DOMAIN last.calls :
                     last.calls[i].ep = "AvailableCountries" => ~last.calls[i].ok

C4_Witness ==
    /\ last.op \in {"public_holidays", "next_public_holidays"}
    /\ last.preCached
    /\ last.exc = "none"
    /\ last.ret # <<>>
    /\ acOk = 1

AssignOps == {"assign_country", "assign_holiday", "assign_weekend", "assign_nager"}

\* C5: an assignment from outside to a public attribute of a constructed
\* Country (summary or full), Holiday, Weekend or of the facade raises
\* AttributeError and changes neither the facade and its Country objects
\* nor the Holiday or Weekend assigned to.
C5_AssignmentRejected ==
    [][ last'.op \in AssignOps =>
          /\ last'.exc = "AttributeError"
          /\ last'.msg = "Attributes cannot be edited"
          /\ nager' = nager
          /\ last'.op \in {"assign_holiday", "assign_weekend"} =>
                last'.ret = last.ret[last'.path[1]] ]_vars

C5_Witness ==
    /\ last.op = "assign_country"
    /\ last.key = "region"
    /\ last.preFull
    /\ last.exc = "AttributeError"
    /\ GetCountry(nager, last.path).region # AssignedValue("region")

\* the country argument of the last facade call names a Country
ArgResolves ==
    \/ last.arg.kind = "obj"
    \/ Falsy(last.arg) /\ nager.default_country # 0
    \/ last.arg.kind = "str" /\ ~Falsy(last.arg) /\ ~NotListed
ArgCode ==
    IF last.arg.kind = "obj" THEN GetCountry(nager, last.arg.path).code
    ELSE IF Falsy(last.arg) THEN GetCountry(nager, <<nager.default_country>>).code
    ELSE Upper(last.arg.s)

\* C6: is_today_public_holiday, for a country argument that resolves,
\* issues the IsTodayPublicHoliday request for that Country's code and
\* returns TRUE when the status is 200, FALSE when it is 204.
C6_IsTodayPublicHoliday ==
    (last.op = "is_today_public_holiday" /\ ArgResolves) =>
        /\ last.calls # <<>>
        /\ last.calls[Len(last.calls)].ep = "IsTodayPublicHoliday"
        /\ last.calls[Len(last.calls)].arg = <<ArgCode>>
        /\ last.resp.conn /\ last.resp.status = 200 => last.exc = "none" /\ last.ret = TRUE
        /\ last.resp.conn /\ last.resp.status = 204 => last.exc = "none" /\ last.ret = FALSE

\* the code string of the last country() call is a listed code in some letter case
ResolvedListed ==
    /\ last.op = "country" /\ last.arg.kind = "str" /\ ~Falsy(last.arg)
    /\ last.preCached /\ ~NotListed

\* C7: with the list cached, country(c) for a listed code c in any letter
\* case returns the Country object of the list whose code is c upper-cased:
\* always with load=False; with load=True whenever the load it may need
\* succeeds, after which that Country is full.  It raises only when that
\* CountryInfo call fails.
C7_ResolveAnyCase ==
    ResolvedListed =>
        /\ ~last.load => last.exc = "none" /\ last.calls = <<>>
        /\ last.exc # "none" =>
              /\ last.load /\ ~last.preFull
              /\ Len(last.calls) = 1
              /\ last.calls[1].ep = "CountryInfo" /\ ~last.calls[1].ok
        /\ last.exc = "none" =>
              /\ last.ret \in Paths(nager)
              /\ GetCountry(nager, last.ret).code = Upper(last.arg.s)
              /\ \A i \in DOMAIN CountryList :
                    CountryList[i].code = Upper(last.arg.s) => last.ret = <<i>>
              /\ last.load => IsFull(GetCountry(nager, last.ret))

C7_Witness ==
    /\ ResolvedListed
    /\ last.arg.s # Upper(last.arg.s)
    /\ last.load /\ ~last.preFull
    /\ last.exc = "none"
    /\ GetCountry(nager, last.ret).code = Upper(last.arg.s)

\* a non-boolean raw request got a response with status 404
Got404 == last.op = "get_country_info" /\ last.resp.conn /\ last.resp.status = 404

\* C8, as stated: in non-boolean mode every 404 response, whatever its
\* body, raises the not-found error "Country Code Invalid".
C8_AsStated == Got404 => Raises("NagerException", "Country Code Invalid")

\* C8, amended: in non-boolean mode a 404 response never returns a value; it
\* raises the not-found error "Country Code Invalid" when its body is valid
\* JSON and the JSON decode error when it is not.
C8_NotFound ==
    Got404 =>
        /\ last.exc = "NagerException"
        /\ last.resp.json => last.msg = "Country Code Invalid"
        /\ ~last.resp.json => last.msg = "Failed to Decode Response JSON"

C8_Witness == Got404 /\ last.resp.json /\ Raises("NagerException", "Country Code Invalid")

\* C9: country() without a country argument raises "No Country Provided",
\* with no remote call, when the facade has no default country, and returns
\* the facade's default Country object when it has one.
C9_NoArgument ==
    (last.op = "country" /\ last.arg.kind = "none") =>
        /\ nager.default_country = 0 =>
              Raises("NagerException", "No Country Provided") /\ last.calls = <<>>
        /\ nager.default_country # 0 =>
              last.exc = "none" /\ last.ret = <<nager.default_country>>

C9_Witness ==
    /\ last.op = "country" /\ last.arg.kind = "none"
    /\ nager.default_country # 0
    /\ last.ret = <<nager.default_country>>

RECURSIVE TwoStates(_)
\* a Country and the Country objects of its borders are each in summary
\* state or in full state
TwoStates(c) ==
    /\ IsSummary(c) \/ IsFull(c)
    /\ \A j \in DOMAIN c.borders : TwoStates(c.borders[j])

\* C10: every Country object is at all times either in summary state or in
\* full state, and no step (resolve, attribute read, load_details, first or
\* repeated, failed or not) takes a full Country of the list out of full
\* state.
C10_OneWay ==
    /\ [](Cached => \A i \in DOMAIN CountryList : TwoStates(CountryList[i]))
    /\ [][ Cached => \A i \in DOMAIN CountryList :
              CountryList[i]._full =>
                  /\ nager'._countries # <<>>
                  /\ i \in DOMAIN nager'._countries[1]
                  /\ IsFull(nager'._countries[1][i]) ]_vars

C10_Witness ==
    /\ last.op = "load_details"
    /\ last.preFull
    /\ Len(last.calls) = 1 /\ last.calls[1].ok
    /\ IsFull(GetCountry(nager, last.path))

\* a call that returns Holiday objects has returned its list
HolidaysProduced == last.op \in HolidayOps /\ last.exc = "none"

\* C11, as stated: the country back-reference of every Holiday that
\* public_holidays, next_public_holidays or next_public_worldwide_holidays
\* returns is a Country in summary state whose code is the holiday's
\* country code.
C11_AsStated ==
    HolidaysProduced =>
        \A i \in DOMAIN last.ret :
            /\ last.ret[i].country \in Paths(nager)
            /\ IsSummary(GetCountry(nager, last.ret[i].country))
            /\ GetCountry(nager, last.ret[i].country).code = last.ret[i].code

\* C11, amended: the country back-reference of every Holiday returned is
\* the Country object of the facade's cached list whose code is the
\* holiday's country code, in the state it has there: full exactly when an
\* earlier load made it full, in summary state otherwise.  Producing the
\* holidays issues no CountryInfo call and leaves an already cached list and
\* its Country objects as they were.
C11_BackReference ==
    [][ (last'.op \in HolidayOps /\ last'.exc = "none") =>
          /\ \A k \in DOMAIN last'.calls : last'.calls[k].ep # "CountryInfo"
          /\ Cached => (nager'._countries = nager._countries)
          /\ \A i \in DOMAIN last'.ret :
                LET h == last'.ret[i]
                IN  /\ nager'._countries # <<>>
                    /\ h.country \in Paths(nager')
                    /\ GetCountry(nager', h.country).code = h.code
                    /\ GetCountry(nager', h.country)._full
                          <=> (Cached /\ h.country \in Paths(nager)
                                 /\ GetCountry(nager, h.country)._full)
                    /\ IF GetCountry(nager', h.country)._full
                       THEN IsFull(GetCountry(nager', h.country))
                       ELSE IsSummary(GetCountry(nager', h.country)) ]_vars

C11_Witness ==
    /\ last.op = "next_public_worldwide_holidays" /\ last.exc = "none"
    /\ last.ret # <<>>
    /\ last.ret[1].country \in Paths(nager)
    /\ IsSummary(GetCountry(nager, last.ret[1].country))
    /\ GetCountry(nager, last.ret[1].country).code = last.ret[1].code

\* the operations that can load the details of a Country
LoadOps == { "load_details", "getattribute", "country" }

\* what the service answered is one of the failures of a non-boolean
\* request: no connection, a body that is not JSON, or a status >= 400
FailureResponse(r) == ~r.conn \/ ~r.json \/ r.status >= 400

\* the message that belongs to a failure response
FailureMessage(r) ==
    IF ~r.conn THEN "Failed to Connect"
    ELSE IF ~r.json THEN "Failed to Decode Response JSON"
    ELSE IF r.status = 404 THEN "Country Code Invalid"
    ELSE "Request Error"

\* the last operation was a load whose CountryInfo call failed
CountryInfoFailed ==
    /\ last.op \in LoadOps
    /\ last.calls # <<>>
    /\ last.calls[Len(last.calls)].ep = "CountryInfo"
    /\ FailureResponse(last.resp)

\* the Country the last load operation was about
LoadedPath ==
    IF last.op \in {"load_details", "getattribute"} THEN last.path
    ELSE IF last.arg.kind = "obj" THEN last.arg.path
    ELSE IF Falsy(last.arg) THEN <<nager.default_country>>
    ELSE <<Index(CountryList, last.arg.s)>>

PublicKeys == { "name", "code", "official", "region", "borders" }
Unpopulated == { "official", "region", "borders" }

\* C12: when the CountryInfo call of load_details, of a read of an
\* unpopulated field, or of country(..., load=True) fails (no connection,
\* JSON decode failure, 404, other status >= 400), the operation raises that
\* failure's NagerException and the Country is as it was: a Country that
\* was not full is in summary state with the code and name it had, and a
\* Country that load_details was called on when full is still full; it
\* rejects outside writes; a cached list is unchanged as a whole; and a
\* read of an unpopulated field of a Country left in summary state that
\* follows issues the CountryInfo call for its code again.
C12_FailedLoad ==
    /\ [](CountryInfoFailed =>
            /\ Raises("NagerException", FailureMessage(last.resp))
            /\ Cardinality({ k \in DOMAIN last.calls : last.calls[k].ep = "CountryInfo" }) = 1
            /\ Cached /\ LoadedPath \in Paths(nager)
            /\ last.calls[Len(last.calls)].arg = <<GetCountry(nager, LoadedPath).code>>
            /\ last.preFull => last.op = "load_details" /\ IsFull(GetCountry(nager, LoadedPath))
            /\ ~last.preFull =>
                  /\ IsSummary(GetCountry(nager, LoadedPath))
                  /\ GetCountry(nager, LoadedPath)
                        = NewCountry(SummaryBody(GetCountry(nager, LoadedPath).code))
            /\ \A key \in PublicKeys :
                  SetAttr(Obj(GetCountry(nager, LoadedPath)), key, AssignedValue(key)).raised)
    /\ [][ CountryInfoFailed' =>
              (Cached => (nager' = nager)) /\ (last'.op # "country" => Cached) ]_vars
    /\ [][ ( /\ CountryInfoFailed /\ ~last.preFull
             /\ last'.op = "getattribute"
             /\ last'.path = LoadedPath
             /\ last'.key \in Unpopulated ) =>
              /\ Len(last'.calls) = 1
              /\ last'.calls[1].ep = "CountryInfo"
              /\ last'.calls[1].arg = <<GetCountry(nager, LoadedPath).code>> ]_vars

C12_Witness ==
    /\ CountryInfoFailed
    /\ last.op = "getattribute" /\ last.key = "region"
    /\ last.preCached
    /\ Raises("NagerException", "Failed to Connect")
    /\ IsSummary(GetCountry(nager, last.path))

====
